---- MODULE Spec2Model ----
(***************************************************************************)
(* Two independent Tkinter programs of the repository:                     *)
(*   calculator.py          CalculatorApp  (expression, input_var)         *)
(*   rock_paper_scissors.py RPSApp         (four counters, four labels)    *)
(* Strings the calculator edits are sequences of one-character strings;    *)
(* the labels of the game are TLA+ strings built by concatenation.         *)
(***************************************************************************)
EXTENDS Integers, Sequences, FiniteSets, TLC

VARIABLES
    expression,          \* CalculatorApp.expression
    input_var,           \* CalculatorApp.input_var (the displayed value)
    char,                \* argument of the last on_button_click call ("" before any)
    lastChange,          \* which branch last assigned self.expression
    expr,                \* the string the last press gave to eval (<<>> if it was not "=")
    prev,                \* char and lastChange as they were before the last press
    player_score,        \* RPSApp.player_score
    computer_score,      \* RPSApp.computer_score
    ties,                \* RPSApp.ties
    total_rounds,        \* RPSApp.total_rounds
    score_var,           \* RPSApp.score_var
    detailed_stats_var,  \* RPSApp.detailed_stats_var
    result_var,          \* RPSApp.result_var
    computer_var,        \* RPSApp.computer_var
    call                 \* the last RPSApp method call: its argument, draw and outcome

calcVars == <<expression, input_var, char, lastChange, expr>>
rpsVars == <<player_score, computer_score, ties, total_rounds,
             score_var, detailed_stats_var, result_var, computer_var, call>>
vars == <<expression, input_var, char, lastChange, expr, prev,
          player_score, computer_score, ties, total_rounds,
          score_var, detailed_stats_var, result_var, computer_var, call>>

(***************************************************************************)
(* Bounds.                                                                 *)
(***************************************************************************)
\* longest expression the model lets the buttons build
MaxLen == 5
\* most rounds played between two resets (from 16 rounds on, a win rate can
\* fall halfway between two tenths)
MaxRounds == 16

(***************************************************************************)
(* Calculator: the buttons.                                                *)
(***************************************************************************)
\* the digit buttons pressed in the model (a subset of "0123456789")
DigitKeys == {"0", "1", "2", "3"}
AllDigits == {"0", "1", "2", "3", "4", "5", "6", "7", "8", "9"}
Operators == {"+", "-", "×", "÷"}
Buttons == DigitKeys \cup Operators \cup {"C", "="}

ZeroText == <<"0">>
ErrorText == <<"E", "r", "r", "o", "r">>

Last(s) == s[Len(s)]
EndsWith(s, c) == Len(s) > 0 /\ s[Len(s)] = c

DigitVal(c) ==
    CASE c = "0" -> 0 [] c = "1" -> 1 [] c = "2" -> 2 [] c = "3" -> 3
      [] c = "4" -> 4 [] c = "5" -> 5 [] c = "6" -> 6 [] c = "7" -> 7
      [] c = "8" -> 8 [] c = "9" -> 9
DigitChar(n) == <<"0", "1", "2", "3", "4", "5", "6", "7", "8", "9">>[n + 1]

(***************************************************************************)
(* Python numbers.  A value is the rational n/d in lowest terms, d > 0;    *)
(* f says it is a float; x says the float is exactly that rational.  An    *)
(* int is always exact.  A float that is not exact stands for the binary64 *)
(* the interpreter rounded to, near n/d.                                   *)
(***************************************************************************)
Abs(n) == IF n < 0 THEN -n ELSE n

RECURSIVE Gcd(_, _)
Gcd(a, b) == IF b = 0 THEN a ELSE Gcd(b, a % b)

RECURSIVE IsPow2(_)
IsPow2(d) == IF d = 1 THEN TRUE ELSE IF d % 2 = 1 THEN FALSE ELSE IsPow2(d \div 2)

PyInt(n) == [f |-> FALSE, n |-> n, d |-> 1, x |-> TRUE]
PyFloat(n, d, x) ==
    LET g == Gcd(Abs(n), d)
        rn == n \div g
        rd == d \div g
    IN [f |-> TRUE, n |-> rn, d |-> rd, x |-> x /\ IsPow2(rd)]

Ok(v) == [ok |-> TRUE, why |-> "", val |-> v]
Fail(why) == [ok |-> FALSE, why |-> why, val |-> PyInt(0)]

\* a + b, or a - b when sgn = -1
PyAdd(a, b, sgn) ==
    IF ~a.f /\ ~b.f THEN PyInt(a.n + sgn * b.n)
    ELSE PyFloat(a.n * b.d + sgn * b.n * a.d, a.d * b.d, a.x /\ b.x)

PyMul(a, b) ==
    IF ~a.f /\ ~b.f THEN PyInt(a.n * b.n)
    \* an exact zero times any finite float is zero
    ELSE PyFloat(a.n * b.n, a.d * b.d,
                 (a.x /\ b.x) \/ (a.x /\ a.n = 0) \/ (b.x /\ b.n = 0))

\* true division: always a float, ZeroDivisionError on a zero divisor
PyDiv(a, b) ==
    IF b.n = 0 THEN Fail("ZeroDivisionError")
    ELSE LET s == IF b.n < 0 THEN -1 ELSE 1
         IN Ok(PyFloat(s * a.n * b.d, a.d * Abs(b.n), a.x /\ b.x))

PyNeg(a) == [a EXCEPT !.n = -a.n]

(***************************************************************************)
(* str() of a Python number.                                               *)
(***************************************************************************)
RECURSIVE NatChars(_)
NatChars(n) == IF n < 10 THEN <<DigitChar(n)>>
               ELSE Append(NatChars(n \div 10), DigitChar(n % 10))

IntChars(n) == IF n < 0 THEN <<"-">> \o NatChars(-n) ELSE NatChars(n)

\* the decimal digits of r/d, 0 <= r < d, d a power of two
RECURSIVE FracChars(_, _)
FracChars(r, d) == IF r = 0 THEN <<>>
                   ELSE <<DigitChar((r * 10) \div d)>> \o FracChars((r * 10) % d, d)

\* repr switches to exponent notation below 1e-4 (and from 1e16 on, which
\* no expression of the model reaches)
PlainRange(v) == v.n = 0 \/ Abs(v.n) * 10000 >= v.d

PyStr(v) ==
    IF ~v.f THEN IntChars(v.n)
    ELSE IF v.x /\ PlainRange(v)
    THEN LET a == Abs(v.n)
             frac == FracChars(a % v.d, v.d)
         IN (IF v.n < 0 THEN <<"-">> ELSE <<>>) \o NatChars(a \div v.d) \o <<".">>
            \o (IF frac = <<>> THEN <<"0">> ELSE frac)
    \* the shortest-round-trip digits of a rounded binary64 are not expanded:
    \* the text is a token naming the rational the float is near
    ELSE <<"~">> \o IntChars(v.n) \o <<"/">> \o IntChars(v.d)

(***************************************************************************)
(* eval() on the strings the calculator passes to it: digits and the       *)
(* characters + - * / =.                                                   *)
(***************************************************************************)
\* expr = self.expression.replace("×", "*").replace("÷", "/")
Replace(s) == [i \in 1..Len(s) |->
                 IF s[i] = "×" THEN "*" ELSE IF s[i] = "÷" THEN "/" ELSE s[i]]

RECURSIVE DigitRun(_)
DigitRun(s) == IF s = <<>> \/ s[1] \notin AllDigits THEN 0
               ELSE 1 + DigitRun(Tail(s))

\* the tokenizer is greedy: **, // and == are single tokens
RECURSIVE Lex(_)
Lex(s) ==
    IF s = <<>> THEN <<>>
    ELSE IF s[1] \in AllDigits
    THEN LET k == DigitRun(s)
         IN <<[t |-> "num", text |-> SubSeq(s, 1, k)]>> \o Lex(SubSeq(s, k + 1, Len(s)))
    ELSE IF Len(s) >= 2 /\ s[1] \in {"*", "/", "="} /\ s[2] = s[1]
    THEN <<[t |-> "op", text |-> SubSeq(s, 1, 2)]>> \o Lex(SubSeq(s, 3, Len(s)))
    ELSE <<[t |-> "op", text |-> SubSeq(s, 1, 1)]>> \o Lex(Tail(s))

IsOp(tok, ops) == tok.t = "op" /\ tok.text \in ops

\* a decimal literal: a nonzero digit then digits, or zeros only
ValidLiteral(ds) == Len(ds) = 1 \/ ds[1] # "0" \/ \A i \in 1..Len(ds) : ds[i] = "0"

RECURSIVE LiteralVal(_)
LiteralVal(ds) == IF ds = <<>> THEN 0
                  ELSE LiteralVal(SubSeq(ds, 1, Len(ds) - 1)) * 10 + DigitVal(Last(ds))

Max0(S) == IF S = {} THEN 0 ELSE CHOOSE i \in S : \A j \in S : j <= i

\* the last + or - that follows an operand (a sign after an operator is unary)
LastAdditive(toks) ==
    Max0({i \in 2..Len(toks) : IsOp(toks[i], {<<"+">>, <<"-">>}) /\ toks[i - 1].t = "num"})

LastMultiplicative(toks) ==
    Max0({i \in 1..Len(toks) : IsOp(toks[i], {<<"*">>, <<"/">>})})

HasDoubledToken(toks) ==
    \E i \in 1..Len(toks) : IsOp(toks[i], {<<"*", "*">>, <<"/", "/">>, <<"=", "=">>})

RECURSIVE EvalFactor(_)
EvalFactor(toks) ==
    IF toks = <<>> THEN Fail("SyntaxError")
    ELSE IF IsOp(toks[1], {<<"+">>, <<"-">>})
    THEN LET r == EvalFactor(Tail(toks))
         IN IF ~r.ok THEN r
            ELSE IF toks[1].text = <<"-">> THEN Ok(PyNeg(r.val)) ELSE r
    ELSE IF toks[1].t = "num" /\ Len(toks) = 1 /\ ValidLiteral(toks[1].text)
    THEN Ok(PyInt(LiteralVal(toks[1].text)))
    ELSE Fail("SyntaxError")

RECURSIVE EvalTerm(_)
EvalTerm(toks) ==
    LET i == LastMultiplicative(toks)
    IN IF i = 0 THEN EvalFactor(toks)
       ELSE LET l == EvalTerm(SubSeq(toks, 1, i - 1))
                r == EvalFactor(SubSeq(toks, i + 1, Len(toks)))
            IN IF ~l.ok THEN l
               ELSE IF ~r.ok THEN r
               ELSE IF toks[i].text = <<"*">> THEN Ok(PyMul(l.val, r.val))
               ELSE PyDiv(l.val, r.val)

RECURSIVE EvalSum(_)
EvalSum(toks) ==
    LET i == LastAdditive(toks)
    IN IF i = 0 THEN EvalTerm(toks)
       ELSE LET l == EvalSum(SubSeq(toks, 1, i - 1))
                r == EvalTerm(SubSeq(toks, i + 1, Len(toks)))
            IN IF ~l.ok THEN l
               ELSE IF ~r.ok THEN r
               ELSE Ok(PyAdd(l.val, r.val, IF toks[i].text = <<"+">> THEN 1 ELSE -1))

\* eval(expr).  A lone "=" is a SyntaxError in an expression.  Python's **, //
\* and == need two adjacent equal characters, which on_button_click never
\* produces (InEvalDomain below); what they compute is not modelled.  A float
\* zero keeps no sign: -0.0 needs a unary minus, which no button sequence
\* can place before an operand.
PyEval(s) ==
    LET toks == Lex(s)
    IN IF HasDoubledToken(toks) THEN Fail("unmodelled") ELSE EvalSum(toks)

(***************************************************************************)
(* CalculatorApp.on_button_click, one definition per branch.               *)
(***************************************************************************)
CalcInit ==
    /\ expression = <<>>
    /\ input_var = ZeroText
    /\ char = ""
    /\ lastChange = "init"
    /\ expr = <<>>
    /\ prev = [char |-> "", change |-> "init"]

\* slip: the "0" on display is not tested
PressDigit_no_zero_test(c) ==
    /\ c \in DigitKeys
    /\ (EndsWith(expression, "=") \/ Len(expression) < MaxLen)
    /\ expression' = IF EndsWith(expression, "=")
                     THEN <<c>>
                     ELSE Append(expression, c)
    /\ input_var' = expression'
    /\ char' = c
    /\ lastChange' = "digit"
    /\ expr' = <<>>

\* slip: the trailing "=" is not tested
PressDigit_no_marker_test(c) ==
    /\ c \in DigitKeys
    /\ (input_var = ZeroText \/ Len(expression) < MaxLen)
    /\ expression' = IF input_var = ZeroText
                     THEN <<c>>
                     ELSE Append(expression, c)
    /\ input_var' = expression'
    /\ char' = c
    /\ lastChange' = "digit"
    /\ expr' = <<>>

PressDigit(c) ==
    /\ c \in DigitKeys
    /\ (input_var = ZeroText \/ EndsWith(expression, "=") \/ Len(expression) < MaxLen)
    /\ expression' = IF input_var = ZeroText \/ EndsWith(expression, "=")
                     THEN <<c>>
                     ELSE Append(expression, c)
    /\ input_var' = expression'
    /\ char' = c
    /\ lastChange' = "digit"
    /\ expr' = <<>>

\* slip: only a repeat of the same operator is ignored
PressOperator_same_only(c) ==
    /\ c \in Operators
    /\ IF expression # <<>> /\ Last(expression) # c
       THEN /\ Len(expression) < MaxLen
            /\ expression' = Append(expression, c)
            /\ input_var' = expression'
            /\ lastChange' = "operator"
       ELSE UNCHANGED <<expression, input_var, lastChange>>
    /\ char' = c
    /\ expr' = <<>>

\* slip: input_var is not set after the append
PressOperator_no_display(c) ==
    /\ c \in Operators
    /\ IF expression # <<>> /\ Last(expression) \notin Operators
       THEN /\ Len(expression) < MaxLen
            /\ expression' = Append(expression, c)
            /\ input_var' = input_var
            /\ lastChange' = "operator"
       ELSE UNCHANGED <<expression, input_var, lastChange>>
    /\ char' = c
    /\ expr' = <<>>

\* slip: an empty expression is not tested
PressOperator_no_empty_test(c) ==
    /\ c \in Operators
    /\ IF expression = <<>> \/ Last(expression) \notin Operators
       THEN /\ Len(expression) < MaxLen
            /\ expression' = Append(expression, c)
            /\ input_var' = expression'
            /\ lastChange' = "operator"
       ELSE UNCHANGED <<expression, input_var, lastChange>>
    /\ char' = c
    /\ expr' = <<>>

PressOperator(c) ==
    /\ c \in Operators
    /\ IF expression # <<>> /\ Last(expression) \notin Operators
       THEN /\ Len(expression) < MaxLen
            /\ expression' = Append(expression, c)
            /\ input_var' = expression'
            /\ lastChange' = "operator"
       ELSE UNCHANGED <<expression, input_var, lastChange>>
    /\ char' = c
    /\ expr' = <<>>

\* slip: input_var is not set
PressClear_keeps_display ==
    /\ expression' = <<>>
    /\ input_var' = input_var
    /\ char' = "C"
    /\ lastChange' = "clear"
    /\ expr' = <<>>

PressClear ==
    /\ expression' = <<>>
    /\ input_var' = ZeroText
    /\ char' = "C"
    /\ lastChange' = "clear"
    /\ expr' = <<>>

\* slip: the except branch leaves self.expression as it was
PressEquals_keeps_expression ==
    LET r == PyEval(Replace(expression))
    IN /\ IF r.ok
          THEN /\ Len(expression) < MaxLen
               /\ input_var' = PyStr(r.val)
               /\ expression' = Append(expression, "=")
               /\ lastChange' = "evaluated"
          ELSE /\ input_var' = ErrorText
               /\ UNCHANGED <<expression, lastChange>>
       /\ char' = "="
       /\ expr' = Replace(expression)

\* slip: a trailing "=" is dropped before the string goes to eval
PressEquals_strips_marker ==
    LET e == IF EndsWith(expression, "=")
             THEN SubSeq(expression, 1, Len(expression) - 1)
             ELSE expression
        r == PyEval(Replace(e))
    IN /\ IF r.ok
          THEN /\ Len(expression) < MaxLen
               /\ input_var' = PyStr(r.val)
               /\ expression' = Append(expression, "=")
               /\ lastChange' = "evaluated"
          ELSE /\ input_var' = ErrorText
               /\ expression' = <<>>
               /\ lastChange' = "failed"
       /\ char' = "="
       /\ expr' = Replace(e)

PressEquals ==
    LET r == PyEval(Replace(expression))
    IN /\ IF r.ok
          THEN /\ Len(expression) < MaxLen
               /\ input_var' = PyStr(r.val)
               /\ expression' = Append(expression, "=")
               /\ lastChange' = "evaluated"
          ELSE /\ input_var' = ErrorText
               /\ expression' = <<>>
               /\ lastChange' = "failed"
       /\ char' = "="
       /\ expr' = Replace(expression)

on_button_click(c) ==
    IF c \in AllDigits THEN PressDigit(c)
    ELSE IF c \in Operators THEN PressOperator(c)
    ELSE IF c = "C" THEN PressClear
    ELSE IF c = "=" THEN PressEquals
    ELSE UNCHANGED calcVars

CalcNext ==
    /\ \E c \in Buttons : on_button_click(c)
    /\ prev' = [char |-> char, change |-> lastChange]
    /\ UNCHANGED rpsVars

(***************************************************************************)
(* Rock-Paper-Scissors.                                                    *)
(***************************************************************************)
CHOICES == {"rock", "paper", "scissors"}
\* arguments play is called with that are not in CHOICES
InvalidChoices == {"Rock", "lizard", ""}

\* str.lower() and str.title() on the strings above
Lower(s) == IF s = "Rock" THEN "rock" ELSE s
Title(s) ==
    CASE s = "rock" -> "Rock" [] s = "paper" -> "Paper" [] s = "scissors" -> "Scissors"
      [] s = "lizard" -> "Lizard" [] OTHER -> s

\* slip: one entry of the table points the wrong way
wins_over_typo == [p \in CHOICES |->
                     CASE p = "rock" -> "scissors" [] p = "paper" -> "rock"
                       [] p = "scissors" -> "rock"]

wins_over == [p \in CHOICES |->
                CASE p = "rock" -> "scissors" [] p = "paper" -> "rock"
                  [] p = "scissors" -> "paper"]

\* dict.get: None for a missing key
Get(dict, k) == IF k \in DOMAIN dict THEN dict[k] ELSE "None"

decide_winner(player, computer) ==
    LET p == Lower(player)
        c == Lower(computer)
    IN IF p = c THEN "tie"
       ELSE IF Get(wins_over, p) = c THEN "win" ELSE "lose"

RECURSIVE NatStr(_)
NatStr(n) == IF n < 10 THEN DigitChar(n) ELSE NatStr(n \div 10) \o DigitChar(n % 10)

\* slip: the rate is cut after the first decimal instead of rounded
RateTenths_truncates(p, t) == (1000 * p) \div t

\* f"{v:.1f}" of v = (p / t) * 100: the tenths nearest to 1000p/t, a tie
\* going to the even tenth
RateTenths(p, t) ==
    LET q == (1000 * p) \div t
        r == (1000 * p) % t
    IN IF 2 * r > t \/ (2 * r = t /\ q % 2 = 1) THEN q + 1 ELSE q

FormatRate(p, t) ==
    LET k == RateTenths(p, t) IN NatStr(k \div 10) \o "." \o NatStr(k % 10)

_format_score(ps, cs) == "Player: " \o NatStr(ps) \o "   Computer: " \o NatStr(cs)

_format_detailed_stats(ps, cs, ti, tr) ==
    IF tr = 0 THEN "Wins: 0 | Losses: 0 | Ties: 0 | Total: 0 | Win Rate: 0.0%"
    ELSE "Wins: " \o NatStr(ps) \o " | Losses: " \o NatStr(cs) \o " | Ties: " \o NatStr(ti)
         \o " | Total: " \o NatStr(tr) \o " | Win Rate: " \o FormatRate(ps, tr) \o "%"

InitResultText == "Make your move!"
\* the round messages; each ends in an emoji, written here by its code point
WinText == "You win this round! U+1F389"
LoseText == "You lose this round. U+1F622"
TieText == "It's a tie. U+1F610"
InitComputerText == "Computer hasn't played yet."

RPSInit ==
    /\ player_score = 0
    /\ computer_score = 0
    /\ ties = 0
    /\ total_rounds = 0
    /\ score_var = _format_score(0, 0)
    /\ detailed_stats_var = _format_detailed_stats(0, 0, 0, 0)
    /\ result_var = InitResultText
    /\ computer_var = InitComputerText
    /\ call = [op |-> "init", arg |-> "", draw |-> "", outcome |-> ""]

\* slip: no membership test before the round is played
play_unvalidated(player_choice, computer_choice) ==
    LET outcome == decide_winner(player_choice, computer_choice)
    IN /\ total_rounds < MaxRounds
       /\ total_rounds' = total_rounds + 1
       /\ IF outcome = "win"
          THEN /\ player_score' = player_score + 1
               /\ result_var' = WinText
               /\ UNCHANGED <<computer_score, ties>>
          ELSE IF outcome = "lose"
          THEN /\ computer_score' = computer_score + 1
               /\ result_var' = LoseText
               /\ UNCHANGED <<player_score, ties>>
          ELSE /\ ties' = ties + 1
               /\ result_var' = TieText
               /\ UNCHANGED <<player_score, computer_score>>
       /\ computer_var' = "Computer chose: " \o Title(computer_choice)
       /\ score_var' = _format_score(player_score', computer_score')
       /\ detailed_stats_var' =
              _format_detailed_stats(player_score', computer_score', ties', total_rounds')
       /\ call' = [op |-> "play", arg |-> player_choice, draw |-> computer_choice,
                   outcome |-> outcome]

\* slip: a lost round is counted where the ties are counted
play_lose_as_tie(player_choice, computer_choice) ==
    IF player_choice \notin CHOICES
    THEN /\ call' = [op |-> "play", arg |-> player_choice, draw |-> "", outcome |-> ""]
         /\ UNCHANGED <<player_score, computer_score, ties, total_rounds,
                        score_var, detailed_stats_var, result_var, computer_var>>
    ELSE LET outcome == decide_winner(player_choice, computer_choice)
         IN /\ total_rounds < MaxRounds
            /\ total_rounds' = total_rounds + 1
            /\ IF outcome = "win"
               THEN /\ player_score' = player_score + 1
                    /\ result_var' = WinText
                    /\ UNCHANGED <<computer_score, ties>>
               ELSE /\ ties' = ties + 1
                    /\ result_var' = IF outcome = "lose" THEN LoseText ELSE TieText
                    /\ UNCHANGED <<player_score, computer_score>>
            /\ computer_var' = "Computer chose: " \o Title(computer_choice)
            /\ score_var' = _format_score(player_score', computer_score')
            /\ detailed_stats_var' =
                   _format_detailed_stats(player_score', computer_score', ties', total_rounds')
            /\ call' = [op |-> "play", arg |-> player_choice, draw |-> computer_choice,
                        outcome |-> outcome]

\* slip: score_var is not refreshed
play_stale_score(player_choice, computer_choice) ==
    IF player_choice \notin CHOICES
    THEN /\ call' = [op |-> "play", arg |-> player_choice, draw |-> "", outcome |-> ""]
         /\ UNCHANGED <<player_score, computer_score, ties, total_rounds,
                        score_var, detailed_stats_var, result_var, computer_var>>
    ELSE LET outcome == decide_winner(player_choice, computer_choice)
         IN /\ total_rounds < MaxRounds
            /\ total_rounds' = total_rounds + 1
            /\ IF outcome = "win"
               THEN /\ player_score' = player_score + 1
                    /\ result_var' = WinText
                    /\ UNCHANGED <<computer_score, ties>>
               ELSE IF outcome = "lose"
               THEN /\ computer_score' = computer_score + 1
                    /\ result_var' = LoseText
                    /\ UNCHANGED <<player_score, ties>>
               ELSE /\ ties' = ties + 1
                    /\ result_var' = TieText
                    /\ UNCHANGED <<player_score, computer_score>>
            /\ computer_var' = "Computer chose: " \o Title(computer_choice)
            /\ score_var' = score_var
            /\ detailed_stats_var' =
                   _format_detailed_stats(player_score', computer_score', ties', total_rounds')
            /\ call' = [op |-> "play", arg |-> player_choice, draw |-> computer_choice,
                        outcome |-> outcome]

\* slip: a tied round leaves computer_var as it was
play_tie_keeps_computer_label(player_choice, computer_choice) ==
    IF player_choice \notin CHOICES
    THEN /\ call' = [op |-> "play", arg |-> player_choice, draw |-> "", outcome |-> ""]
         /\ UNCHANGED <<player_score, computer_score, ties, total_rounds,
                        score_var, detailed_stats_var, result_var, computer_var>>
    ELSE LET outcome == decide_winner(player_choice, computer_choice)
         IN /\ total_rounds < MaxRounds
            /\ total_rounds' = total_rounds + 1
            /\ IF outcome = "win"
               THEN /\ player_score' = player_score + 1
                    /\ result_var' = WinText
                    /\ UNCHANGED <<computer_score, ties>>
               ELSE IF outcome = "lose"
               THEN /\ computer_score' = computer_score + 1
                    /\ result_var' = LoseText
                    /\ UNCHANGED <<player_score, ties>>
               ELSE /\ ties' = ties + 1
                    /\ result_var' = TieText
                    /\ UNCHANGED <<player_score, computer_score>>
            /\ computer_var' = IF outcome = "tie" THEN computer_var
                             ELSE "Computer chose: " \o Title(computer_choice)
            /\ score_var' = _format_score(player_score', computer_score')
            /\ detailed_stats_var' =
                   _format_detailed_stats(player_score', computer_score', ties', total_rounds')
            /\ call' = [op |-> "play", arg |-> player_choice, draw |-> computer_choice,
                        outcome |-> outcome]

\* play(player_choice); computer_choice is the draw of random.choice(CHOICES)
play(player_choice, computer_choice) ==
    IF player_choice \notin CHOICES
    THEN \* messagebox.showerror(...); return
         /\ call' = [op |-> "play", arg |-> player_choice, draw |-> "", outcome |-> ""]
         /\ UNCHANGED <<player_score, computer_score, ties, total_rounds,
                        score_var, detailed_stats_var, result_var, computer_var>>
    ELSE LET outcome == decide_winner(player_choice, computer_choice)
         IN /\ total_rounds < MaxRounds
            /\ total_rounds' = total_rounds + 1
            /\ IF outcome = "win"
               THEN /\ player_score' = player_score + 1
                    /\ result_var' = WinText
                    /\ UNCHANGED <<computer_score, ties>>
               ELSE IF outcome = "lose"
               THEN /\ computer_score' = computer_score + 1
                    /\ result_var' = LoseText
                    /\ UNCHANGED <<player_score, ties>>
               ELSE /\ ties' = ties + 1
                    /\ result_var' = TieText
                    /\ UNCHANGED <<player_score, computer_score>>
            /\ computer_var' = "Computer chose: " \o Title(computer_choice)
            /\ score_var' = _format_score(player_score', computer_score')
            /\ detailed_stats_var' =
                   _format_detailed_stats(player_score', computer_score', ties', total_rounds')
            /\ call' = [op |-> "play", arg |-> player_choice, draw |-> computer_choice,
                        outcome |-> outcome]

\* slip: self.ties is not zeroed
reset_score_keeps_ties ==
    /\ player_score' = 0
    /\ computer_score' = 0
    /\ ties' = ties
    /\ total_rounds' = 0
    /\ score_var' = _format_score(player_score', computer_score')
    /\ detailed_stats_var' =
           _format_detailed_stats(player_score', computer_score', ties', total_rounds')
    /\ result_var' = "Scores reset. Make your move!"
    /\ computer_var' = "Computer hasn't played yet."
    /\ call' = [op |-> "reset_score", arg |-> "", draw |-> "", outcome |-> ""]

\* slip: self.computer_var is not set
reset_score_stale_computer ==
    /\ player_score' = 0
    /\ computer_score' = 0
    /\ ties' = 0
    /\ total_rounds' = 0
    /\ score_var' = _format_score(player_score', computer_score')
    /\ detailed_stats_var' =
           _format_detailed_stats(player_score', computer_score', ties', total_rounds')
    /\ result_var' = "Scores reset. Make your move!"
    /\ computer_var' = computer_var
    /\ call' = [op |-> "reset_score", arg |-> "", draw |-> "", outcome |-> ""]

\* slip: the labels are refreshed before the counters are zeroed
reset_score_stats_first ==
    /\ player_score' = 0
    /\ computer_score' = 0
    /\ ties' = 0
    /\ total_rounds' = 0
    /\ score_var' = _format_score(player_score, computer_score)
    /\ detailed_stats_var' =
           _format_detailed_stats(player_score, computer_score, ties, total_rounds)
    /\ result_var' = "Scores reset. Make your move!"
    /\ computer_var' = "Computer hasn't played yet."
    /\ call' = [op |-> "reset_score", arg |-> "", draw |-> "", outcome |-> ""]

reset_score ==
    /\ player_score' = 0
    /\ computer_score' = 0
    /\ ties' = 0
    /\ total_rounds' = 0
    /\ score_var' = _format_score(player_score', computer_score')
    /\ detailed_stats_var' =
           _format_detailed_stats(player_score', computer_score', ties', total_rounds')
    /\ result_var' = "Scores reset. Make your move!"
    /\ computer_var' = "Computer hasn't played yet."
    /\ call' = [op |-> "reset_score", arg |-> "", draw |-> "", outcome |-> ""]

RPSNext ==
    /\ \/ \E pc \in CHOICES \cup InvalidChoices : \E cc \in CHOICES : play(pc, cc)
       \/ reset_score
    /\ UNCHANGED <<calcVars, prev>>

(***************************************************************************)
(* Specifications: each program runs on its own.                           *)
(***************************************************************************)
Init == CalcInit /\ RPSInit

CalcSpec == Init /\ [][CalcNext]_vars

RPSSpec == Init /\ [][RPSNext]_vars

\* no string handed to eval holds a **, // or == token
InEvalDomain == ~HasDoubledToken(Lex(Replace(expression)))

(***************************************************************************)
(* Conventional arithmetic on number (operator number)*, as exact          *)
(* rationals: * and / bind tighter than + and -, equal precedence          *)
(* associates to the left, a number is read in base ten.                   *)
(***************************************************************************)
ExprOps == {"+", "-", "*", "/"}

\* number (operator number)* with at least two operands
WellFormed(s) ==
    /\ Len(s) >= 3
    /\ s[1] \in AllDigits
    /\ Last(s) \in AllDigits
    /\ \A i \in 1..Len(s) : s[i] \in AllDigits \cup ExprOps
    /\ \A i \in 1..(Len(s) - 1) : ~(s[i] \in ExprOps /\ s[i + 1] \in ExprOps)
    /\ \E i \in 1..Len(s) : s[i] \in ExprOps

Rat(n, d) == LET g == Gcd(Abs(n), d) IN [def |-> TRUE, n |-> n \div g, d |-> d \div g]
Undefined == [def |-> FALSE, n |-> 0, d |-> 1]

LastOf(s, ops) == Max0({i \in 1..Len(s) : s[i] \in ops})

RECURSIVE ConvTerm(_)
ConvTerm(s) ==
    LET i == LastOf(s, {"*", "/"})
    IN IF i = 0 THEN Rat(LiteralVal(s), 1)
       ELSE LET l == ConvTerm(SubSeq(s, 1, i - 1))
                r == LiteralVal(SubSeq(s, i + 1, Len(s)))
            IN IF ~l.def THEN Undefined
               ELSE IF s[i] = "*" THEN Rat(l.n * r, l.d)
               ELSE IF r = 0 THEN Undefined
               ELSE Rat(l.n, l.d * r)

RECURSIVE ConvSum(_)
ConvSum(s) ==
    LET i == LastOf(s, {"+", "-"})
    IN IF i = 0 THEN ConvTerm(s)
       ELSE LET l == ConvSum(SubSeq(s, 1, i - 1))
                r == ConvTerm(SubSeq(s, i + 1, Len(s)))
            IN IF ~l.def \/ ~r.def THEN Undefined
               ELSE IF s[i] = "+" THEN Rat(l.n * r.d + r.n * l.d, l.d * r.d)
               ELSE Rat(l.n * r.d - r.n * l.d, l.d * r.d)

\* the text is str() of an int equal to n/d or of a float equal or rounded to it
Shows(text, n, d) ==
    \/ d = 1 /\ text = IntChars(n)
    \/ text = PyStr(PyFloat(n, d, TRUE))
    \/ text = PyStr(PyFloat(n, d, FALSE))

EqualsMarks == {i \in 1..Len(expression) : expression[i] = "="}

(***************************************************************************)
(* Claims.                                                                 *)
(***************************************************************************)

\* C1: the expression holds at most one "=", only as its last character, and
\* only when the last press that assigned the expression was a successful
\* evaluation.
C1_TrailingMarkerOnly ==
    /\ Cardinality(EqualsMarks) <= 1
    /\ \A i \in EqualsMarks : i = Len(expression)
    /\ EqualsMarks # {} => lastChange = "evaluated"

\* C2: total_rounds is the sum of the three other counters and no counter is
\* negative, whatever plays (valid or not) and resets came before.
C2_TotalIsSum ==
    /\ total_rounds = player_score + computer_score + ties
    /\ player_score >= 0 /\ computer_score >= 0 /\ ties >= 0 /\ total_rounds >= 0

C2_Witness ==
    /\ call.op = "play" /\ call.arg \notin CHOICES
    /\ total_rounds = 3 /\ player_score = 1 /\ computer_score = 1 /\ ties = 1

\* C3: right after "=" on number (operator number)* with two operands or
\* more, the displayed value is the result of conventional arithmetic.
C3_ConventionalResult ==
    (char = "=" /\ WellFormed(expr) /\ ConvSum(expr).def)
        => Shows(input_var, ConvSum(expr).n, ConvSum(expr).d)

\* C4: right after "=" on an expression whose evaluation fails (empty, ending
\* in an operator, dividing by zero or malformed otherwise), the displayed
\* value is "Error" and the expression is empty.
C4_FailureShowsError ==
    (char = "=" /\ (\/ expr = <<>>
                    \/ Last(expr) \in ExprOps
                    \/ (WellFormed(expr) /\ ~ConvSum(expr).def)
                    \/ ~PyEval(expr).ok))
        => input_var = ErrorText /\ expression = <<>>

C4_Witness ==
    char = "=" /\ expr = <<"1", "/", "0">> /\ input_var = ErrorText /\ expression = <<>>

\* C5: a play call whose argument is not in CHOICES changes no counter and no
\* label.
C5_InvalidPlayChangesNothing ==
    [][(call'.op = "play" /\ call'.arg \notin CHOICES)
         => UNCHANGED <<player_score, computer_score, ties, total_rounds,
                        score_var, detailed_stats_var, result_var, computer_var>>]_vars

C5_Witness ==
    /\ call.op = "play" /\ call.arg = "lizard"
    /\ total_rounds = 2 /\ player_score = 1 /\ result_var = WinText

\* C6: a play call with a valid choice adds one to total_rounds and one to
\* exactly the counter decide_winner names for the draw, leaving the two
\* others as they were.
C6_OneCounterPerRound ==
    [][(call'.op = "play" /\ call'.arg \in CHOICES)
         => LET o == decide_winner(call'.arg, call'.draw)
            IN /\ call'.draw \in CHOICES
               /\ total_rounds' = total_rounds + 1
               /\ player_score' = player_score + (IF o = "win" THEN 1 ELSE 0)
               /\ computer_score' = computer_score + (IF o = "lose" THEN 1 ELSE 0)
               /\ ties' = ties + (IF o = "tie" THEN 1 ELSE 0)
               /\ o \in {"win", "lose", "tie"}]_vars

C6_Witness ==
    /\ call.op = "play" /\ call.arg = "rock" /\ call.draw = "paper"
    /\ computer_score = 2 /\ player_score = 1 /\ ties = 0 /\ total_rounds = 3

\* C7: an operator press on an empty expression or after an operator changes
\* neither the expression nor the displayed value; anywhere else it appends
\* the operator to the expression.
C7_OperatorPress ==
    [][char' \in Operators
         => IF expression = <<>> \/ Last(expression) \in Operators
            THEN expression' = expression /\ input_var' = input_var
            ELSE expression' = Append(expression, char')]_vars

\* an operator press that was ignored after a different operator
C7_Witness ==
    /\ char \in Operators
    /\ Len(expression) >= 2
    /\ Last(expression) \in Operators
    /\ Last(expression) # char

\* C8 as stated: right after reset_score the result and computer-move labels
\* hold their initial texts.
C8_ResetRestoresInitialTexts ==
    call.op = "reset_score"
        => result_var = InitResultText /\ computer_var = InitComputerText

\* C8 amended: right after reset_score the computer-move label holds its
\* initial text and the result label holds "Scores reset. Make your move!".
C8_ResetTexts ==
    call.op = "reset_score"
        => /\ computer_var = InitComputerText
           /\ result_var = "Scores reset. Make your move!"

C8_Witness ==
    call.op = "reset_score" /\ computer_var = InitComputerText /\ result_var # InitResultText

\* C9: right after reset_score the four counters are 0 and the detailed
\* statistics report a win rate of 0.0%.
C9_ResetZeroes ==
    call.op = "reset_score"
        => /\ player_score = 0 /\ computer_score = 0 /\ ties = 0 /\ total_rounds = 0
           /\ detailed_stats_var
                = "Wins: 0 | Losses: 0 | Ties: 0 | Total: 0 | Win Rate: 0.0%"

C9_Witness ==
    call.op = "reset_score" /\ total_rounds = 0 /\ score_var = _format_score(0, 0)

\* C10: decide_winner returns tie on equal choices, win exactly on
\* (rock, scissors), (paper, rock), (scissors, paper), and lose otherwise, so
\* of decide_winner(a, b) and decide_winner(b, a) one is win and one is lose
\* when a # b; the outcome play computed for the last round obeys this.
WinPairs == {<<"rock", "scissors">>, <<"paper", "rock">>, <<"scissors", "paper">>}

C10_DecideWinner ==
    /\ \A a, b \in CHOICES :
          /\ decide_winner(a, b) \in {"win", "lose", "tie"}
          /\ a = b => decide_winner(a, b) = "tie"
          /\ a # b => {decide_winner(a, b), decide_winner(b, a)} = {"win", "lose"}
          /\ decide_winner(a, b) = "win" <=> <<a, b>> \in WinPairs
    /\ (call.op = "play" /\ call.arg \in CHOICES)
          => /\ call.outcome = "tie" <=> call.arg = call.draw
             /\ call.outcome = "win" <=> <<call.arg, call.draw>> \in WinPairs
             /\ call.outcome = "lose" <=> <<call.draw, call.arg>> \in WinPairs

C10_Witness ==
    call.op = "play" /\ call.arg = "scissors" /\ call.draw = "paper" /\ call.outcome = "win"

\* C11: a digit press replaces the expression with the digit when "0" is on
\* display or the expression ends in "=", appends the digit otherwise, and
\* leaves the displayed value equal to the new expression.
C11_DigitPress ==
    [][char' \in AllDigits
         => /\ expression' = IF input_var = ZeroText \/ EndsWith(expression, "=")
                             THEN <<char'>>
                             ELSE Append(expression, char')
            /\ input_var' = expression']_vars

\* "0" was entered as a digit and the next digit took its place
C11_Witness ==
    /\ prev = [char |-> "0", change |-> "digit"]
    /\ char = "2"
    /\ expression = <<"2">>
    /\ input_var = <<"2">>

\* C12: a digit pressed right after "=" leaves the expression and the
\* displayed value equal to that digit alone, whether the evaluation
\* succeeded or failed.
C12_DigitAfterEquals ==
    [][(char = "=" /\ char' \in AllDigits)
         => expression' = <<char'>> /\ input_var' = <<char'>>]_vars

C12_Witness ==
    /\ prev = [char |-> "=", change |-> "evaluated"]
    /\ char \in DigitKeys
    /\ expression = <<char>>
    /\ input_var = <<char>>

\* what one press does to (expression, displayed value) of a calculator
\* that was just started
FreshSuccessor(c) ==
    IF c \in AllDigits THEN << <<c>>, <<c>> >>
    ELSE IF c = "=" THEN << <<>>, ErrorText >>
    ELSE << <<>>, ZeroText >>

\* C13: a press of C leaves the expression empty and "0" on display, as
\* right after construction, and the press that follows does what it does to
\* a calculator that was just started.
C13_ClearIsInitial ==
    [][/\ char' = "C" => expression' = <<>> /\ input_var' = ZeroText
       /\ char \in {"", "C"} => <<expression', input_var'>> = FreshSuccessor(char')]_vars

C13_Witness ==
    /\ char = "C"
    /\ prev.change = "evaluated"
    /\ expression = <<>>
    /\ input_var = ZeroText

Front(s) == SubSeq(s, 1, Len(s) - 1)

\* the displayed value is str() of what the expression before its trailing
\* "=" evaluates to
ShowsResult ==
    /\ EndsWith(expression, "=")
    /\ LET r == PyEval(Replace(Front(expression)))
       IN r.ok /\ input_var = PyStr(r.val)

\* C14 as stated: the displayed value is the current expression, the string
\* form of an evaluation result, or "Error".
C14_ThreeDisplayForms ==
    \/ input_var = expression
    \/ ShowsResult
    \/ input_var = ErrorText

\* C14 amended: the displayed value is the current (non-empty) expression,
\* the string form of the result of evaluating the expression before its
\* trailing "=", "Error" over an empty expression, or the placeholder "0"
\* over an empty expression.
C14_FourDisplayForms ==
    \/ input_var = expression /\ expression # <<>>
    \/ ShowsResult
    \/ input_var = ErrorText /\ expression = <<>>
    \/ input_var = ZeroText /\ expression = <<>>

\* the placeholder is back on display after an evaluation was cleared
C14_Witness ==
    /\ char = "C"
    /\ prev.char = "="
    /\ input_var = ZeroText
    /\ expression = <<>>
    /\ ~C14_ThreeDisplayForms

\* C15: the expression never holds two adjacent operator characters and
\* never begins with one.
C15_OperatorsApart ==
    /\ \A i \in 1..(Len(expression) - 1) :
          ~(expression[i] \in Operators /\ expression[i + 1] \in Operators)
    /\ expression # <<>> => expression[1] \notin Operators

\* two operator presses in a row left one operator in the expression
C15_Witness ==
    /\ char \in Operators
    /\ prev.char \in Operators
    /\ Len(expression) = 4
    /\ expression[2] \in Operators
    /\ expression[4] \in Operators

\* C18: "=" pressed right after a successful evaluation (the expression ends
\* in "=") fails: the displayed value becomes "Error" and the expression
\* empty.
C18_SecondEqualsFails ==
    [][(char = "=" /\ EndsWith(expression, "=") /\ char' = "=")
         => input_var' = ErrorText /\ expression' = <<>>]_vars

C18_Witness ==
    /\ prev = [char |-> "=", change |-> "evaluated"]
    /\ char = "="
    /\ expr = <<"1", "+", "2", "=">>
    /\ input_var = ErrorText
    /\ expression = <<>>

\* a rate of k tenths, as it is printed
TenthsStr(k) == NatStr(k \div 10) \o "." \o NatStr(k % 10)

\* the statistics line for the given counters and a rate of k tenths
StatsLine(ps, cs, ti, tr, k) ==
    "Wins: " \o NatStr(ps) \o " | Losses: " \o NatStr(cs) \o " | Ties: " \o NatStr(ti)
    \o " | Total: " \o NatStr(tr) \o " | Win Rate: " \o TenthsStr(k) \o "%"

\* the tenths on either side of 1000p/t
NearTenths(p, t) ==
    IF t = 0 THEN {0} ELSE {(1000 * p) \div t, (1000 * p) \div t + 1}

\* C16: the score label is "Player: {player_score}   Computer:
\* {computer_score}" for the current counters and the statistics label names
\* the current four counters.
C16_LabelsCurrent ==
    /\ score_var = "Player: " \o NatStr(player_score)
                   \o "   Computer: " \o NatStr(computer_score)
    /\ \E k \in NearTenths(player_score, total_rounds) :
          detailed_stats_var
            = StatsLine(player_score, computer_score, ties, total_rounds, k)

C16_Witness ==
    /\ call.op = "play" /\ call.arg \in CHOICES
    /\ score_var = "Player: 2   Computer: 1"
    /\ detailed_stats_var = "Wins: 2 | Losses: 1 | Ties: 1 | Total: 4 | Win Rate: 50.0%"

\* C17: the rate in the statistics label is "0.0" when total_rounds is 0 and
\* otherwise a number of tenths nearest to 100 * player_score / total_rounds;
\* it lies between 0.0 and 100.0.
C17_WinRate ==
    \E k \in NearTenths(player_score, total_rounds) :
        /\ detailed_stats_var
             = StatsLine(player_score, computer_score, ties, total_rounds, k)
        /\ 0 <= k /\ k <= 1000
        /\ total_rounds = 0 => k = 0
        /\ total_rounds > 0
             => 2 * Abs(k * total_rounds - 1000 * player_score) <= total_rounds

\* 1 win in 16 rounds is 6.25%, halfway between two tenths
C17_Witness ==
    /\ total_rounds = 16 /\ player_score = 1 /\ computer_score = 15
    /\ detailed_stats_var = "Wins: 1 | Losses: 15 | Ties: 0 | Total: 16 | Win Rate: 6.2%"

\* C19: the computer-move label is the placeholder exactly when total_rounds
\* is 0, and otherwise names the draw of the last valid round.
C19_ComputerLabel ==
    /\ computer_var = InitComputerText <=> total_rounds = 0
    /\ total_rounds > 0
         => computer_var \in {"Computer chose: Rock", "Computer chose: Paper",
                              "Computer chose: Scissors"}
    /\ (call.op = "play" /\ call.arg \in CHOICES)
         => computer_var = "Computer chose: " \o Title(call.draw)

\* an invalid play after a round leaves the label of that round
C19_Witness ==
    /\ call.op = "play" /\ call.arg \notin CHOICES
    /\ total_rounds = 1
    /\ computer_var = "Computer chose: Scissors"

====
